---------------------------- MODULE Spec2Model ----------------------------
(***************************************************************************)
(* A model of epub2html (src/epub2html.go): the path resolver, the archive *)
(* accessor, the content rewriter and the pipeline of main.                *)
(*                                                                         *)
(* Go strings are modelled as sequences of one-character strings, so that  *)
(* path cleaning, escaping and base64 encoding are computed, not assumed.  *)
(***************************************************************************)
EXTENDS Integers, Sequences, FiniteSets, TLC

(***************************************************************************)
(* Bounds of the model.                                                    *)
(***************************************************************************)
MaxBaseSegs == 2

MaxRelSegs == 4

MaxPathSegs == 3

MaxFiles == 2

MaxNodes == 4

MaxSpine == 3

VARIABLES
    baseSegs,        \* resolveEpubPath: the elements of base
    relSegs,         \* resolveEpubPath: the elements of rel
    sep,             \* the separator the caller's paths are written with
    resolved         \* resolveEpubPath: [done, path]

pathVars == <<baseSegs, relSegs, sep, resolved>>

VARIABLES
    doc,             \* the parsed tree of one content document
    docPath,         \* its archive path (contentFilePath)
    rendered         \* extractRawHTML on it: [done, w, reads]

renderVars == <<doc, docPath, rendered>>

VARIABLES
    files,           \* r.File: the entries of the archive, in order
    filePath,        \* readZipFile: the path asked for
    readResult       \* readZipFile: [done, err, data, opened]

zipVars == <<files, filePath, readResult>>

VARIABLES
    pc,              \* where main is
    r,               \* the archive handle: how often acquired and released
    opfPath,         \* the path findOpfPath returned
    pkg,             \* the package parseOpf returned
    outFile,         \* the output file: [created, closed, text]
    manifestIDMap,   \* processEpubContent: manifest id -> full path
    manifestHrefMap, \* processEpubContent: full path -> manifest item
    idx,             \* processEpubContent: the spine item to process next
    combinedHTML,    \* processEpubContent: the builder
    reads,           \* the readZipFile calls of processEpubContent
    chunks           \* what each spine item processed so far added to the builder

runVars == <<pc, r, opfPath, pkg, outFile, manifestIDMap, manifestHrefMap, idx, combinedHTML, reads, chunks>>

vars == <<pathVars, zipVars, renderVars, runVars>>

(***************************************************************************)
(* Generic helpers on sequences.                                           *)
(***************************************************************************)
SeqsUpTo(S, n) == UNION {[1..k -> S] : k \in 0..n}

Range(s) == {s[i] : i \in 1..Len(s)}

(***************************************************************************)
(* With(x, F) is F(x), with x computed once before F is applied to it.     *)
(***************************************************************************)
With(x, F(_)) == CHOOSE y \in {F(v) : v \in {x}} : TRUE

(***************************************************************************)
(* strings.ReplaceAll(p, "\\", "/")                                        *)
(***************************************************************************)
ReplaceBackslash(p) ==
    With(p, LAMBDA str : [i \in 1..Len(str) |-> IF str[i] = "\\" THEN "/" ELSE str[i]])

(***************************************************************************)
(* The elements of a slash-separated path, empty elements included.        *)
(***************************************************************************)
SplitAt(str, cuts) ==
    LET cut(k) == CHOOSE c \in cuts : Cardinality({x \in cuts : x < c}) = k - 1
    IN [k \in 1..(Cardinality(cuts) - 1) |-> SubSeq(str, cut(k) + 1, cut(k + 1) - 1)]

SplitSlash(p) ==
    With(p, LAMBDA str :
        With({0, Len(str) + 1} \cup {i \in 1..Len(str) : str[i] = "/"},
             LAMBDA cuts : SplitAt(str, cuts)))

RECURSIVE JoinSlash(_)
JoinSlash(segs) ==
    With(segs, LAMBDA ss :
        IF ss = <<>> THEN <<>>
        ELSE IF Len(ss) = 1 THEN Head(ss)
        ELSE Head(ss) \o <<"/">> \o JoinSlash(Tail(ss)))

Dot == <<".">>

DotDot == <<".", ".">>

(***************************************************************************)
(* path.Clean: one pass over the elements with an output stack.  An empty  *)
(* element or "." is dropped; ".." removes the preceding element unless    *)
(* there is none that can be removed, and then it is dropped on a rooted   *)
(* path and kept on a relative one.  The empty result is ".".              *)
(***************************************************************************)
CleanStep(s, out, rooted) ==
    IF s = <<>> \/ s = Dot THEN out
    ELSE IF s = DotDot
         THEN IF out # <<>> /\ out[Len(out)] # DotDot
              THEN SubSeq(out, 1, Len(out) - 1)
              ELSE IF rooted THEN out
              ELSE Append(out, s)
    ELSE Append(out, s)

RECURSIVE CleanElems(_, _, _)
CleanElems(segs, out, rooted) ==
    With(segs, LAMBDA ss :
        With(out, LAMBDA o :
            IF ss = <<>> THEN o
            ELSE CleanElems(Tail(ss), CleanStep(Head(ss), o, rooted), rooted)))

Clean(p) ==
    With(p, LAMBDA str :
        IF str = <<>> THEN Dot
        ELSE With(JoinSlash(CleanElems(SplitSlash(str), <<>>, str[1] = "/")),
                  LAMBDA body :
                      IF str[1] = "/" THEN <<"/">> \o body
                      ELSE IF body = <<>> THEN Dot ELSE body))

(***************************************************************************)
(* path.Join: the non-empty elements joined by "/" and cleaned; "" when    *)
(* every element is empty.                                                 *)
(***************************************************************************)
PathJoin(elem) ==
    With(SelectSeq(elem, LAMBDA e : e # <<>>), LAMBDA parts :
        IF parts = <<>> THEN <<>> ELSE Clean(JoinSlash(parts)))

(***************************************************************************)
(* path.Dir: everything up to the final slash, cleaned.                    *)
(***************************************************************************)
RECURSIVE LastSlash(_, _)
LastSlash(p, i) == IF i = 0 THEN 0 ELSE IF p[i] = "/" THEN i ELSE LastSlash(p, i - 1)

PathDir(p) == With(p, LAMBDA str : Clean(SubSeq(str, 1, LastSlash(str, Len(str)))))

normalizeEpubPath(p) ==
    With(Clean(ReplaceBackslash(p)), LAMBDA c : IF c = Dot THEN <<>> ELSE c)

joinEpubPath(elem) ==
    With(elem, LAMBDA el :
        IF Len(el) = 0 THEN <<>>
        ELSE With(SelectSeq(el, LAMBDA e : e # <<>>), LAMBDA parts :
                 IF Len(parts) = 0 THEN <<>>
                 ELSE normalizeEpubPath(PathJoin(parts))))

epubDir(epubPath) ==
    With(PathDir(normalizeEpubPath(epubPath)), LAMBDA dir : IF dir = Dot THEN <<>> ELSE dir)

(* the two normalized paths glued with a slash, not joined and cleaned *)
resolveEpubPathGlued(base, rel) ==
    With(normalizeEpubPath(base), LAMBDA nb :
        With(normalizeEpubPath(rel), LAMBDA nr :
            IF nb = <<>> THEN nr ELSE IF nr = <<>> THEN nb ELSE nb \o <<"/">> \o nr))

resolveEpubPath(base, rel) ==
    normalizeEpubPath(PathJoin(<<normalizeEpubPath(base), normalizeEpubPath(rel)>>))

(***************************************************************************)
(* strings.HasPrefix(p, "..")                                              *)
(***************************************************************************)
HasDotDotPrefix(p) == Len(p) >= 2 /\ p[1] = "." /\ p[2] = "."


(***************************************************************************)
(* html.EscapeString: the five special characters are replaced by their    *)
(* entities, every other character is copied.                              *)
(***************************************************************************)
EscapeChar(c) ==
    CASE c = "&"  -> <<"&", "a", "m", "p", ";">>
      [] c = "'"  -> <<"&", "#", "3", "9", ";">>
      [] c = "<"  -> <<"&", "l", "t", ";">>
      [] c = ">"  -> <<"&", "g", "t", ";">>
      [] c = "\"" -> <<"&", "#", "3", "4", ";">>
      [] OTHER    -> <<c>>

RECURSIVE EscapeFrom(_, _)
EscapeFrom(str, i) ==
    IF i > Len(str) THEN <<>> ELSE EscapeChar(str[i]) \o EscapeFrom(str, i + 1)

EscapeString(s) == With(s, LAMBDA str : EscapeFrom(str, 1))

(***************************************************************************)
(* base64.StdEncoding.EncodeToString on a sequence of bytes (0..255).      *)
(***************************************************************************)
B64Alphabet ==
    << "A","B","C","D","E","F","G","H","I","J","K","L","M","N","O","P",
       "Q","R","S","T","U","V","W","X","Y","Z","a","b","c","d","e","f",
       "g","h","i","j","k","l","m","n","o","p","q","r","s","t","u","v",
       "w","x","y","z","0","1","2","3","4","5","6","7","8","9","+","/" >>

B64Char(v) == B64Alphabet[v + 1]

B64Group(n, pad) ==
    << B64Char(n \div 262144), B64Char((n \div 4096) % 64),
       IF pad >= 2 THEN "=" ELSE B64Char((n \div 64) % 64),
       IF pad >= 1 THEN "=" ELSE B64Char(n % 64) >>

RECURSIVE Base64From(_, _)
Base64From(bs, i) ==
    IF i > Len(bs) THEN <<>>
    ELSE IF i = Len(bs) THEN B64Group(bs[i] * 65536, 2)
    ELSE IF i + 1 = Len(bs) THEN B64Group(bs[i] * 65536 + bs[i + 1] * 256, 1)
    ELSE B64Group(bs[i] * 65536 + bs[i + 1] * 256 + bs[i + 2], 0) \o Base64From(bs, i + 3)

Base64(src) == With(src, LAMBDA bs : Base64From(bs, 1))

(***************************************************************************)
(* fmt.Sprintf("data:%s;base64,%s", mediaType, encodedData)                *)
(***************************************************************************)
DataURI(mediaType, imageData) ==
    <<"d", "a", "t", "a", ":">> \o mediaType
    \o <<";", "b", "a", "s", "e", "6", "4", ",">> \o Base64(imageData)

(***************************************************************************)
(* The archive r.File is a sequence of entries.  An entry has a Name, the  *)
(* outcome of opening it (ok), its bytes (data) and what the markup parser *)
(* makes of its bytes (html: a tree, or "error").                          *)
(*                                                                         *)
(* readZipFile returns err ("none", "traversal", "notfound", "open"), the  *)
(* bytes read, and the index of the entry it opened (0: none).             *)
(***************************************************************************)
RECURSIVE FirstNamed(_, _, _)
FirstNamed(File, name, i) ==
    IF i > Len(File) THEN 0
    ELSE IF File[i].Name = name THEN i
    ELSE FirstNamed(File, name, i + 1)

ReadEntry(File, i) ==
    IF i = 0 THEN [err |-> "notfound", data |-> <<>>, opened |-> 0]
    ELSE IF ~File[i].ok THEN [err |-> "open", data |-> <<>>, opened |-> 0]
    ELSE [err |-> "none", data |-> File[i].data, opened |-> i]

(* the lookup by the path as given, not by the cleaned path *)
readZipFileRaw(File, path) ==
    With(path, LAMBDA p :
        IF HasDotDotPrefix(normalizeEpubPath(p))
        THEN [err |-> "traversal", data |-> <<>>, opened |-> 0]
        ELSE With(FirstNamed(File, p, 1), LAMBDA i : ReadEntry(File, i)))

readZipFile(File, path) ==
    With(normalizeEpubPath(path), LAMBDA cleanPath :
        IF HasDotDotPrefix(cleanPath)
        THEN [err |-> "traversal", data |-> <<>>, opened |-> 0]
        ELSE With(FirstNamed(File, cleanPath, 1), LAMBDA i : ReadEntry(File, i)))

(***************************************************************************)
(* The two maps processEpubContent builds from the manifest: a later item  *)
(* with the same key replaces an earlier one.                              *)
(***************************************************************************)
IDMapOf(OpfDir, Items) ==
    LET last(k) == CHOOSE i \in 1..Len(Items) :
                       Items[i].ID = k /\ \A j \in (i + 1)..Len(Items) : Items[j].ID # k
    IN [k \in {Items[i].ID : i \in 1..Len(Items)} |->
            joinEpubPath(<<OpfDir, Items[last(k)].Href>>)]

HrefMapOf(OpfDir, Items) ==
    LET fullHref(i) == joinEpubPath(<<OpfDir, Items[i].Href>>)
        last(k) == CHOOSE i \in 1..Len(Items) :
                       fullHref(i) = k /\ \A j \in (i + 1)..Len(Items) : fullHref(j) # k
    IN [k \in {fullHref(i) : i \in 1..Len(Items)} |-> Items[last(k)]]

(***************************************************************************)
(* Markup trees (html.Node): Type, Data (tag or text), Attr, and the       *)
(* children in order.                                                      *)
(***************************************************************************)
TextNode(d) == [Type |-> "Text", Data |-> d, Attr |-> <<>>, Kids |-> <<>>]

CommentNode == [Type |-> "Comment", Data |-> <<"c">>, Attr |-> <<>>, Kids |-> <<>>]

DoctypeNode == [Type |-> "Doctype", Data |-> <<"h">>, Attr |-> <<>>, Kids |-> <<>>]

ElementNode(tag, attr, kids) == [Type |-> "Element", Data |-> tag, Attr |-> attr, Kids |-> kids]

DocumentNode(kids) == [Type |-> "Document", Data |-> <<>>, Attr |-> <<>>, Kids |-> kids]

Attribute(k, v) == [Key |-> k, Val |-> v]

(***************************************************************************)
(* renderNodeRaw.  Its result is what it does, in order: the strings it    *)
(* writes to w and the readZipFile calls it makes.  A string written is    *)
(* kept as a record: a text (escaped), an open tag (the tag and the        *)
(* attributes written, values escaped) or a close tag.  pos, the path of   *)
(* child indices from the root to the node concerned, is bookkeeping.      *)
(***************************************************************************)
(* svg forgotten *)
DenylistNoSvg == {"script", "style", "link", "meta", "head", "title"}

Denylist == {"script", "style", "link", "meta", "head", "title", "svg"}

RECURSIVE FirstKey(_, _, _)
FirstKey(attr, key, i) ==
    IF i > Len(attr) THEN 0
    ELSE IF attr[i].Key = key THEN i
    ELSE FirstKey(attr, key, i + 1)

RemoveAt(s, i) == SubSeq(s, 1, i - 1) \o SubSeq(s, i + 1, Len(s))

(* lines 355-363: the value of the first src attribute, which is removed *)
TakeSrc(attr) ==
    With(FirstKey(attr, "src", 1), LAMBDA i :
        IF i = 0 THEN [src |-> <<>>, attr |-> attr]
        ELSE [src |-> attr[i].Val, attr |-> RemoveAt(attr, i)])

ReadLog(imagePath, rd, pos) ==
    << [kind |-> "read", path |-> imagePath, opened |-> rd.opened, pos |-> pos] >>

(* a failed image is written without src instead of being given up *)
InlineImageKeepsElement(attr, File, contentFilePath, hrefMap, pos) ==
    With(TakeSrc(attr), LAMBDA t :
        IF t.src = <<>> THEN [skip |-> FALSE, attr |-> t.attr, reads |-> <<>>]
        ELSE With(resolveEpubPath(epubDir(contentFilePath), t.src), LAMBDA imagePath :
             With(readZipFile(File, imagePath), LAMBDA rd :
                 IF rd.err # "none" \/ imagePath \notin DOMAIN hrefMap
                 THEN [skip |-> FALSE, attr |-> t.attr, reads |-> ReadLog(imagePath, rd, pos)]
                 ELSE [skip |-> FALSE,
                       attr |-> Append(t.attr,
                                    Attribute("src", DataURI(hrefMap[imagePath].MediaType, rd.data))),
                       reads |-> ReadLog(imagePath, rd, pos)])))

(* the original src is left in the attribute list *)
InlineImageKeepsSrc(attr, File, contentFilePath, hrefMap, pos) ==
    With(TakeSrc(attr), LAMBDA t :
        IF t.src = <<>> THEN [skip |-> FALSE, attr |-> t.attr, reads |-> <<>>]
        ELSE With(resolveEpubPath(epubDir(contentFilePath), t.src), LAMBDA imagePath :
             With(readZipFile(File, imagePath), LAMBDA rd :
                 IF rd.err # "none" \/ imagePath \notin DOMAIN hrefMap
                 THEN [skip |-> TRUE, attr |-> t.attr, reads |-> ReadLog(imagePath, rd, pos)]
                 ELSE [skip |-> FALSE,
                       attr |-> Append(attr,
                                    Attribute("src", DataURI(hrefMap[imagePath].MediaType, rd.data))),
                       reads |-> ReadLog(imagePath, rd, pos)])))

(* lines 365-388: returns whether the element is given up, the attributes
   to write, and the archive reads made *)
InlineImage(attr, File, contentFilePath, hrefMap, pos) ==
    With(TakeSrc(attr), LAMBDA t :
        IF t.src = <<>> THEN [skip |-> FALSE, attr |-> t.attr, reads |-> <<>>]
        ELSE With(resolveEpubPath(epubDir(contentFilePath), t.src), LAMBDA imagePath :
             With(readZipFile(File, imagePath), LAMBDA rd :
                 IF rd.err # "none"
                 THEN [skip |-> TRUE, attr |-> t.attr, reads |-> ReadLog(imagePath, rd, pos)]
                 ELSE IF imagePath \notin DOMAIN hrefMap
                 THEN [skip |-> TRUE, attr |-> t.attr, reads |-> ReadLog(imagePath, rd, pos)]
                 ELSE [skip |-> FALSE,
                       attr |-> Append(t.attr,
                                    Attribute("src", DataURI(hrefMap[imagePath].MediaType, rd.data))),
                       reads |-> ReadLog(imagePath, rd, pos)])))

(* class is written like any other attribute *)
OpenTagAttrsKeepsClass(attr) ==
    [i \in 1..Len(attr) |-> Attribute(attr[i].Key, EscapeString(attr[i].Val))]

(* lines 395-404: the attributes of the open tag *)
OpenTagAttrs(attr) ==
    With(SelectSeq(attr, LAMBDA a : a.Key # "class"), LAMBDA kept :
        [i \in 1..Len(kept) |-> Attribute(kept[i].Key, EscapeString(kept[i].Val))])

(* line 411 *)
WritesCloseTag(n) == n.Kids # <<>> \/ n.Data # "img"

(* lines 391-413: the open tag, the children, the close tag *)
RECURSIVE renderNodeRaw(_, _, _)
RECURSIVE renderChildren(_, _, _, _)
renderElement(n, attr, pos, ctx) ==
    << [kind |-> "open", tag |-> n.Data, attrs |-> OpenTagAttrs(attr), pos |-> pos] >>
    \o renderChildren(n.Kids, 1, pos, ctx)
    \o (IF WritesCloseTag(n) THEN << [kind |-> "close", tag |-> n.Data, pos |-> pos] >>
        ELSE <<>>)

renderNodeRaw(node, pos, ctx) ==
    With(node, LAMBDA n :
        IF n.Type = "Text"
        THEN << [kind |-> "text", data |-> EscapeString(n.Data), pos |-> pos] >>
        ELSE IF n.Type = "Element"
        THEN IF n.Data \in Denylist THEN <<>>
             ELSE IF n.Data = "img"
             THEN With(InlineImage(n.Attr, ctx.files, ctx.contentFilePath, ctx.hrefMap, pos),
                       LAMBDA img : IF img.skip THEN img.reads
                                    ELSE img.reads \o renderElement(n, img.attr, pos, ctx))
             ELSE renderElement(n, n.Attr, pos, ctx)
        ELSE <<>>)

renderChildren(kids, i, pos, ctx) ==
    IF i > Len(kids) THEN <<>>
    ELSE renderNodeRaw(kids[i], Append(pos, i), ctx) \o renderChildren(kids, i + 1, pos, ctx)

(***************************************************************************)
(* extractRawHTML: findBodyAndExtract walks the tree in document order up  *)
(* to the first body element and renders its children.  The result says    *)
(* whether a body was found.                                               *)
(***************************************************************************)
IsBody(node) == node.Type = "Element" /\ node.Data = "body"

RECURSIVE findBodyAndExtractWithBody(_, _, _)
RECURSIVE findInChildrenWithBody(_, _, _, _)
(* the body element itself is rendered, not its children *)
findBodyAndExtractWithBody(n, pos, ctx) ==
    With(n, LAMBDA node :
        IF IsBody(node)
        THEN [out |-> renderNodeRaw(node, pos, ctx), foundBody |-> TRUE]
        ELSE findInChildrenWithBody(node.Kids, 1, pos, ctx))

findInChildrenWithBody(kids, i, pos, ctx) ==
    IF i > Len(kids) THEN [out |-> <<>>, foundBody |-> FALSE]
    ELSE With(findBodyAndExtractWithBody(kids[i], Append(pos, i), ctx), LAMBDA res :
             IF res.foundBody THEN res
             ELSE findInChildrenWithBody(kids, i + 1, pos, ctx))

RECURSIVE findBodyAndExtract(_, _, _)
RECURSIVE findInChildren(_, _, _, _)
findBodyAndExtract(n, pos, ctx) ==
    With(n, LAMBDA node :
        IF IsBody(node)
        THEN [out |-> renderChildren(node.Kids, 1, pos, ctx), foundBody |-> TRUE]
        ELSE findInChildren(node.Kids, 1, pos, ctx))

findInChildren(kids, i, pos, ctx) ==
    IF i > Len(kids) THEN [out |-> <<>>, foundBody |-> FALSE]
    ELSE With(findBodyAndExtract(kids[i], Append(pos, i), ctx), LAMBDA res :
             IF res.foundBody THEN res
             ELSE findInChildren(kids, i + 1, pos, ctx))

extractRawHTML(n, ctx) == With(ctx, LAMBDA c : findBodyAndExtract(n, <<>>, c).out)

(* what extractRawHTML wrote to w, and the archive reads it made *)
Written(events) == SelectSeq(events, LAMBDA e : e.kind # "read")

ReadsOf(events) == SelectSeq(events, LAMBDA e : e.kind = "read")

(***************************************************************************)
(* The variables of main before it starts.                                 *)
(***************************************************************************)
NoPackage == [Title |-> <<>>, Items |-> <<>>, Itemrefs |-> <<>>, OpfDir |-> <<>>]

RunIdle ==
    /\ pc = "idle"
    /\ r = [acquired |-> 0, released |-> 0]
    /\ opfPath = <<>>
    /\ pkg = NoPackage
    /\ outFile = [created |-> FALSE, closed |-> 0, text |-> <<>>]
    /\ idx = 0
    /\ combinedHTML = <<>>
    /\ reads = <<>>
    /\ chunks = <<>>

NoMaps == manifestIDMap = <<>> /\ manifestHrefMap = <<>>

(***************************************************************************)
(* Path resolution on its own: any base and rel, given by their elements   *)
(* and written with either separator, are resolved.                        *)
(***************************************************************************)
SegNames == {<<"a">>, <<"b">>, Dot, DotDot}

RECURSIVE JoinWith(_, _)
JoinWith(segs, c) ==
    IF segs = <<>> THEN <<>>
    ELSE IF Len(segs) = 1 THEN Head(segs)
    ELSE Head(segs) \o <<c>> \o JoinWith(Tail(segs), c)

InitPath ==
    /\ baseSegs \in SeqsUpTo(SegNames, MaxBaseSegs)
    /\ relSegs \in SeqsUpTo(SegNames, MaxRelSegs)
    /\ sep \in {"/", "\\"}
    /\ resolved = [done |-> FALSE, path |-> <<>>]
    /\ files = <<>>
    /\ filePath = <<>>
    /\ readResult = [done |-> FALSE]
    /\ doc = DocumentNode(<<>>)
    /\ docPath = <<>>
    /\ rendered = [done |-> FALSE]
    /\ RunIdle
    /\ NoMaps

Resolve ==
    /\ ~resolved.done
    /\ resolved' = [done |-> TRUE,
                    path |-> resolveEpubPath(JoinWith(baseSegs, sep), JoinWith(relSegs, sep))]
    /\ UNCHANGED <<baseSegs, relSegs, sep, zipVars, renderVars, runVars>>

NextPath == Resolve

SpecPath == InitPath /\ [][NextPath]_vars


(***************************************************************************)
(* Lexical cleaning of a sequence of elements, by rewriting: the "."       *)
(* elements are removed, then an ordinary element directly followed by     *)
(* ".." is removed together with it, until no such pair is left.           *)
(***************************************************************************)
IsOrdinary(seg) == seg # Dot /\ seg # DotDot

RECURSIVE CancelPairs(_)
CancelPairs(segs) ==
    LET hits == {i \in 1..(Len(segs) - 1) : IsOrdinary(segs[i]) /\ segs[i + 1] = DotDot} IN
    IF hits = {} THEN segs
    ELSE LET i == CHOOSE j \in hits : \A k \in hits : j <= k IN
         CancelPairs(SubSeq(segs, 1, i - 1) \o SubSeq(segs, i + 2, Len(segs)))

LexicalClean(segs) == CancelPairs(SelectSeq(segs, LAMBDA x : x # Dot))

(* every ".." has an ordinary element before it left to cancel *)
RECURSIVE NeverAboveStart(_, _)
NeverAboveStart(segs, depth) ==
    IF segs = <<>> THEN TRUE
    ELSE IF Head(segs) = Dot THEN NeverAboveStart(Tail(segs), depth)
    ELSE IF Head(segs) = DotDot THEN depth > 0 /\ NeverAboveStart(Tail(segs), depth - 1)
    ELSE NeverAboveStart(Tail(segs), depth + 1)

Elements(p) == SelectSeq(SplitSlash(p), LAMBDA x : x # <<>>)

(***************************************************************************)
(* C8: resolveEpubPath(base, rel) is the lexical cleaning of base's        *)
(* elements followed by rel's: "." is removed and each ".." cancels the    *)
(* nearest preceding ordinary element, those of base included; an empty    *)
(* base gives normalize(rel); and when no ".." lacks an ordinary element   *)
(* before it, the result has no "." and no ".." element.                   *)
(***************************************************************************)
C8_ResolveIsLexicalClean ==
    resolved.done =>
        /\ resolved.path = JoinSlash(LexicalClean(baseSegs \o relSegs))
        /\ baseSegs = <<>> => resolved.path = normalizeEpubPath(JoinWith(relSegs, sep))
        /\ NeverAboveStart(baseSegs \o relSegs, 0) =>
               \A i \in 1..Len(Elements(resolved.path)) :
                   IsOrdinary(Elements(resolved.path)[i])

(* base a/b (for OEBPS/text/nested one level less), rel ../../a/b: the ".."
   of rel cancel elements of base *)
C8_Witness ==
    /\ resolved.done
    /\ baseSegs = << <<"a">>, <<"b">> >>
    /\ relSegs = << DotDot, DotDot, <<"b">>, <<"a">> >>
    /\ resolved.path = <<"b", "/", "a">>


(***************************************************************************)
(* The archive accessor on its own: any small archive, any path.  The      *)
(* bytes of the i-th entry are <<i>>, so that the bytes returned tell      *)
(* which entry was read.  An entry may fail to open.                       *)
(***************************************************************************)
ZipSegNames == {<<"a">>, <<"b">>, DotDot, <<".", ".", "a">>}

EntryNames == {<<"a">>, <<"b", "/", "a">>, <<".", ".", "a">>}

Archives ==
    UNION {{[i \in 1..k |-> [Name |-> nm[i], ok |-> ok[i], data |-> <<i>>]] :
               nm \in [1..k -> EntryNames], ok \in [1..k -> BOOLEAN]} : k \in 0..MaxFiles}

InitZip ==
    /\ files \in Archives
    /\ \E segs \in SeqsUpTo(ZipSegNames, MaxPathSegs), c \in {"/", "\\"} :
           filePath = JoinWith(segs, c)
    /\ readResult = [done |-> FALSE]
    /\ baseSegs = <<>> /\ relSegs = <<>> /\ sep = "/"
    /\ resolved = [done |-> FALSE, path |-> <<>>]
    /\ doc = DocumentNode(<<>>)
    /\ docPath = <<>>
    /\ rendered = [done |-> FALSE]
    /\ RunIdle
    /\ NoMaps

ReadZip ==
    /\ ~readResult.done
    /\ LET rd == readZipFile(files, filePath) IN
       readResult' = [done |-> TRUE, err |-> rd.err, data |-> rd.data, opened |-> rd.opened]
    /\ UNCHANGED <<files, filePath, pathVars, renderVars, runVars>>

NextZip == ReadZip

SpecZip == InitZip /\ [][NextZip]_vars

NamedEntries(File, name) == {i \in 1..Len(File) : File[i].Name = name}

OpsDir == <<"O", "P", "S">>

ImageJpeg == <<"i", "m", "a", "g", "e", "/", "j", "p", "e", "g">>

ImagePng == <<"i", "m", "a", "g", "e", "/", "p", "n", "g">>

ImageGif == <<"i", "m", "a", "g", "e", "/", "g", "i", "f">>

CoverBytes == <<255, 216, 255, 224>>

RenderFiles ==
    << [Name |-> <<"O", "P", "S", "/", "i", "m", "g", "/", "a", ".", "j", "p", "g">>, ok |-> TRUE, data |-> CoverBytes],
       [Name |-> <<"O", "P", "S", "/", "i", "m", "g", "/", "b", ".", "p", "n", "g">>, ok |-> TRUE, data |-> <<137, 80>>],
       [Name |-> <<"O", "P", "S", "/", "i", "m", "g", "/", "c", ".", "g", "i", "f">>, ok |-> FALSE, data |-> <<71>>] >>

RenderItems ==
    << [ID |-> "cover", Href |-> <<"i", "m", "g", "/", "a", ".", "j", "p", "g">>, MediaType |-> ImageJpeg],
       [ID |-> "locked", Href |-> <<"i", "m", "g", "/", "c", ".", "g", "i", "f">>, MediaType |-> ImageGif],
       [ID |-> "ghost", Href |-> <<"i", "m", "g", "/", "d", ".", "p", "n", "g">>, MediaType |-> ImagePng] >>

SrcCover == <<".", ".", "/", "i", "m", "g", "/", "a", ".", "j", "p", "g">>

SrcCoverBackslash == <<".", ".", "\\", "i", "m", "g", "\\", "a", ".", "j", "p", "g">>

SrcOrphan == <<".", ".", "/", "i", "m", "g", "/", "b", ".", "p", "n", "g">>

SrcLocked == <<".", ".", "/", "i", "m", "g", "/", "c", ".", "g", "i", "f">>

SrcGhost == <<".", ".", "/", "i", "m", "g", "/", "d", ".", "p", "n", "g">>

SrcValues == {SrcCover, SrcCoverBackslash, SrcOrphan, SrcLocked, SrcGhost, <<>>}

TextAmpLt == <<"a", "<", "&">>

AttrOptions ==
    {Attribute("class", <<"c">>), Attribute("id", <<"\"", "x">>)}
    \cup {Attribute("src", v) : v \in SrcValues}

(* every attribute list with distinct keys *)
AttrLists ==
    {l \in SeqsUpTo(AttrOptions, 3) :
        \A i, j \in 1..Len(l) : i # j => l[i].Key # l[j].Key}

Leaves ==
    { TextNode(TextAmpLt),
      ElementNode("img", <<Attribute("class", <<"c">>), Attribute("src", SrcCover)>>, <<>>),
      ElementNode("img", <<Attribute("src", SrcOrphan), Attribute("alt", <<"x">>)>>, <<>>) }

InnerLabels ==
    { [tag |-> "p", attr |-> <<Attribute("class", <<"c">>), Attribute("id", <<"x">>)>>],
      [tag |-> "svg", attr |-> <<Attribute("class", <<"c">>)>>] }

RECURSIVE TreesOf(_)
RECURSIVE ForestsOf(_)
TreesOf(k) ==
    IF k = 1 THEN Leaves \cup {ElementNode(l.tag, l.attr, <<>>) : l \in InnerLabels}
    ELSE {ElementNode(l.tag, l.attr, f) : l \in InnerLabels, f \in ForestsOf(k - 1)}

ForestsOf(k) ==
    IF k = 0 THEN {<<>>}
    ELSE UNION {{<<t>> \o f : t \in TreesOf(j), f \in ForestsOf(k - j)} : j \in 1..k}

(* one element of each tag the rewriter knows, then a comment and a text *)
TagSamples ==
    {<<ElementNode(tag, <<Attribute("class", <<"c">>)>>, <<TextNode(<<"x">>)>>),
       CommentNode, TextNode(<<"t">>)>> : tag \in {"script", "style", "title", "div"}}
    \cup {<<ElementNode(tag, <<Attribute("class", <<"c">>)>>, <<>>),
            CommentNode, TextNode(<<"t">>)>> : tag \in {"link", "meta", "head"}}

AttrSamples ==
    {<<ElementNode(tag, l, <<>>), TextNode(<<"t">>)>> : tag \in {"p", "img"}, l \in AttrLists}

Ch1Path == <<"O", "P", "S", "/", "t", "x", "t", "/", "c", "h", "1", ".", "h", "t", "m">>

RootPath == <<"c", "h", "1", ".", "h", "t", "m">>

(* what the parser builds around the body *)
HtmlDocument(bodyKids) ==
    DocumentNode(<< DoctypeNode,
                    ElementNode("html", <<>>,
                        << ElementNode("head", <<>>,
                               <<ElementNode("title", <<>>, <<TextNode(<<"T">>)>>)>>),
                           ElementNode("body", <<Attribute("class", <<"b">>)>>, bodyKids) >>) >>)

BodyPos == <<2, 2>>

InitRender ==
    /\ \/ /\ \E b \in UNION {ForestsOf(k) : k \in 0..MaxNodes} : doc = HtmlDocument(b)
          /\ docPath = Ch1Path
       \/ /\ \E b \in AttrSamples \cup TagSamples : doc = HtmlDocument(b)
          /\ docPath \in {Ch1Path, RootPath}
    /\ rendered = [done |-> FALSE]
    /\ baseSegs = <<>> /\ relSegs = <<>> /\ sep = "/"
    /\ resolved = [done |-> FALSE, path |-> <<>>]
    /\ files = RenderFiles
    /\ filePath = <<>>
    /\ readResult = [done |-> FALSE]
    /\ RunIdle
    /\ manifestIDMap = IDMapOf(OpsDir, RenderItems)
    /\ manifestHrefMap = HrefMapOf(OpsDir, RenderItems)

Extract ==
    /\ ~rendered.done
    /\ \E events \in {extractRawHTML(doc, [files |-> files, contentFilePath |-> docPath,
                                            hrefMap |-> manifestHrefMap])} :
       rendered' = [done |-> TRUE, w |-> Written(events), reads |-> ReadsOf(events)]
    /\ UNCHANGED <<doc, docPath, pathVars, zipVars, runVars>>

NextRender == Extract

SpecRender == InitRender /\ [][NextRender]_vars


(***************************************************************************)
(* Vocabulary of the claims about the rewriter.                            *)
(***************************************************************************)
RECURSIVE NodeAt(_, _)
NodeAt(tree, pos) == IF pos = <<>> THEN tree ELSE NodeAt(tree.Kids[Head(pos)], Tail(pos))

RECURSIVE Positions(_)
Positions(tree) ==
    {<<>>} \cup UNION {{<<i>> \o q : q \in Positions(tree.Kids[i])} : i \in 1..Len(tree.Kids)}

IsPrefix(q, pos) == Len(q) <= Len(pos) /\ SubSeq(pos, 1, Len(q)) = q

DroppedTags == {"script", "style", "link", "meta", "head", "title", "svg"}

IsElement(node, tag) == node.Type = "Element" /\ node.Data = tag

(* below the body at bodyPos, with no dropped element above it *)
ReachedIn(tree, bodyPos, pos) ==
    /\ IsPrefix(bodyPos, pos) /\ Len(pos) > Len(bodyPos)
    /\ \A k \in (Len(bodyPos) + 1)..(Len(pos) - 1) :
           NodeAt(tree, SubSeq(pos, 1, k)).Data \notin DroppedTags

Reached(pos) == ReachedIn(doc, BodyPos, pos)

TokensAt(w, pos) == SelectSeq(w, LAMBDA t : t.kind # "sep" /\ t.pos = pos)

HasKey(attr, key) == \E i \in 1..Len(attr) : attr[i].Key = key

FirstIndex(attr, key) ==
    CHOOSE i \in 1..Len(attr) :
        attr[i].Key = key /\ \A j \in 1..(i - 1) : attr[j].Key # key

ImgSrc(node) == IF HasKey(node.Attr, "src") THEN node.Attr[FirstIndex(node.Attr, "src")].Val ELSE <<>>

ImagePath(node, path) == resolveEpubPath(epubDir(path), ImgSrc(node))

ReadableEntries(File, name) == {i \in 1..Len(File) : File[i].Name = name /\ File[i].ok}

ManifestEntries(OpfDir, Items, name) ==
    {i \in 1..Len(Items) : joinEpubPath(<<OpfDir, Items[i].Href>>) = name}

(* an img with a src that can be inlined / that cannot *)
Inlinable(node, path) ==
    /\ IsElement(node, "img") /\ ImgSrc(node) # <<>>
    /\ ReadableEntries(files, ImagePath(node, path)) # {}
    /\ ManifestEntries(OpsDir, RenderItems, ImagePath(node, path)) # {}

NotInlinable(node, path) ==
    /\ IsElement(node, "img") /\ ImgSrc(node) # <<>>
    /\ \/ ReadableEntries(files, ImagePath(node, path)) = {}
       \/ ManifestEntries(OpsDir, RenderItems, ImagePath(node, path)) = {}

TextEmitted(w, tree, pos) ==
    TokensAt(w, pos) = << [kind |-> "text", data |-> EscapeString(NodeAt(tree, pos).Data), pos |-> pos] >>

C5_DenylistDropped ==
    rendered.done =>
        /\ \A i \in 1..Len(rendered.w) :
               rendered.w[i].kind \in {"open", "close"} => rendered.w[i].tag \notin DroppedTags
        /\ \A pos \in Positions(doc) :
               /\ ( /\ IsPrefix(BodyPos, pos) /\ Len(pos) > Len(BodyPos)
                    /\ NodeAt(doc, pos).Type = "Element"
                    /\ NodeAt(doc, pos).Data \in DroppedTags )
                  => /\ \A i \in 1..Len(rendered.w) : ~IsPrefix(pos, rendered.w[i].pos)
                     /\ \A i \in 1..Len(rendered.reads) : ~IsPrefix(pos, rendered.reads[i].pos)
               /\ Reached(pos) /\ NodeAt(doc, pos).Type = "Text" =>
                      TextEmitted(rendered.w, doc, pos)
               /\ ( /\ Reached(pos) /\ NodeAt(doc, pos).Type = "Element"
                    /\ NodeAt(doc, pos).Data \notin DroppedTags \cup {"img"} )
                  => TokensAt(rendered.w, pos) # <<>>

(* an svg inside a p, holding the cover image, with a text after the svg *)
C5_Witness ==
    /\ rendered.done
    /\ \E pos \in Positions(doc) :
           /\ Len(pos) = Len(BodyPos) + 2
           /\ IsElement(NodeAt(doc, pos), "svg")
           /\ Len(NodeAt(doc, pos).Kids) = 1
           /\ Inlinable(NodeAt(doc, pos).Kids[1], docPath)
           /\ rendered.reads = <<>>
    /\ \E i \in 1..Len(rendered.w) : rendered.w[i].kind = "text"


(***************************************************************************)
(* C7, as written: the open tag written for an element that carries a      *)
(* class attribute has no class attribute and has every other attribute of *)
(* the element; for an element other than img they are in the original     *)
(* order, with the original values, escaped.                               *)
(***************************************************************************)
OtherThanClass(attr) == {i \in 1..Len(attr) : attr[i].Key # "class"}

Rank(S, i) == Cardinality({j \in S : j <= i})

HasPrefix(str, pre) == Len(pre) <= Len(str) /\ SubSeq(str, 1, Len(pre)) = pre

HasSuffix(str, suf) ==
    Len(suf) <= Len(str) /\ SubSeq(str, Len(str) - Len(suf) + 1, Len(str)) = suf

Contains(str, c) == \E i \in 1..Len(str) : str[i] = c

ContainerXml == <<"M", "E", "T", "A", "-", "I", "N", "F", "/", "c", "o", "n", "t", "a", "i", "n", "e", "r", ".", "x", "m", "l">>

OpfMediaType == "application/oebps-package+xml"

DotOpf == <<".", "o", "p", "f">>

DefaultTitle == <<"C", "o", "n", "v", "e", "r", "t", "e", "d", " ", "E", "P", "U", "B">>

(* lines 197-205 *)
RECURSIVE opfFallback(_, _)
opfFallback(File, i) ==
    IF i > Len(File) THEN [err |-> TRUE, path |-> <<>>]
    ELSE IF HasSuffix(File[i].Name, DotOpf) /\ ~Contains(File[i].Name, "/")
    THEN [err |-> FALSE, path |-> File[i].Name]
    ELSE IF /\ HasSuffix(File[i].Name, DotOpf)
            /\ \/ HasPrefix(File[i].Name, <<"O", "E", "B", "P", "S", "/">>)
               \/ HasPrefix(File[i].Name, <<"O", "P", "S", "/">>)
    THEN [err |-> FALSE, path |-> File[i].Name]
    ELSE opfFallback(File, i + 1)

RECURSIVE FirstRootfile(_, _)
FirstRootfile(Rootfiles, i) ==
    IF i > Len(Rootfiles) THEN 0
    ELSE IF Rootfiles[i].MediaType = OpfMediaType THEN i
    ELSE FirstRootfile(Rootfiles, i + 1)

(* lines 171-195, then the fallback *)
RECURSIVE findOpfPathFrom(_, _)
findOpfPathFrom(File, i) ==
    IF i > Len(File) THEN opfFallback(File, 1)
    ELSE IF File[i].Name = ContainerXml
    THEN IF ~File[i].ok THEN [err |-> TRUE, path |-> <<>>]
         ELSE IF File[i].xml.kind # "container" THEN [err |-> TRUE, path |-> <<>>]
         ELSE LET k == FirstRootfile(File[i].xml.Rootfiles, 1) IN
              IF k # 0 THEN [err |-> FALSE, path |-> File[i].xml.Rootfiles[k].FullPath]
              ELSE findOpfPathFrom(File, i + 1)
    ELSE findOpfPathFrom(File, i + 1)

findOpfPath(File) == findOpfPathFrom(File, 1)

parseOpf(File, path) ==
    LET i == FirstNamed(File, path, 1) IN
    IF i = 0 THEN [err |-> TRUE, pkg |-> NoPackage]
    ELSE IF ~File[i].ok THEN [err |-> TRUE, pkg |-> NoPackage]
    ELSE IF File[i].xml.kind # "package" THEN [err |-> TRUE, pkg |-> NoPackage]
    ELSE [err |-> FALSE,
          pkg |-> [Title |-> File[i].xml.Title, Items |-> File[i].xml.Items,
                   Itemrefs |-> File[i].xml.Itemrefs, OpfDir |-> PathDir(path)]]

(* line 165 *)
Separator == [kind |-> "sep"]

(* an item that cannot be read still gets its separator *)
processItemSeparatesAll(idref, idMap, hrefMap, File) ==
    IF idref \notin DOMAIN idMap THEN [out |-> <<>>, reads |-> <<>>]
    ELSE With(idMap[idref], LAMBDA contentFilePath :
         With(readZipFile(File, contentFilePath), LAMBDA rd :
             IF rd.err # "none"
             THEN [out |-> <<Separator>>, reads |-> ReadLog(contentFilePath, rd, <<>>)]
             ELSE IF File[rd.opened].html.Type = "ParseError"
             THEN [out |-> <<>>, reads |-> ReadLog(contentFilePath, rd, <<>>)]
             ELSE With(extractRawHTML(File[rd.opened].html,
                           [files |-> File, contentFilePath |-> contentFilePath,
                            hrefMap |-> hrefMap]),
                       LAMBDA events :
                           [out |-> Append(Written(events), Separator),
                            reads |-> ReadLog(contentFilePath, rd, <<>>) \o ReadsOf(events)])))

(* the separator is written before the item, not after it *)
processItemSeparatorFirst(idref, idMap, hrefMap, File) ==
    IF idref \notin DOMAIN idMap THEN [out |-> <<>>, reads |-> <<>>]
    ELSE With(idMap[idref], LAMBDA contentFilePath :
         With(readZipFile(File, contentFilePath), LAMBDA rd :
             IF rd.err # "none"
             THEN [out |-> <<>>, reads |-> ReadLog(contentFilePath, rd, <<>>)]
             ELSE IF File[rd.opened].html.Type = "ParseError"
             THEN [out |-> <<>>, reads |-> ReadLog(contentFilePath, rd, <<>>)]
             ELSE With(extractRawHTML(File[rd.opened].html,
                           [files |-> File, contentFilePath |-> contentFilePath,
                            hrefMap |-> hrefMap]),
                       LAMBDA events :
                           [out |-> <<Separator>> \o Written(events),
                            reads |-> ReadLog(contentFilePath, rd, <<>>) \o ReadsOf(events)])))

(* lines 144-166: one turn of the loop over the spine; out is what it appends *)
(* to combinedHTML *)
processItem(idref, idMap, hrefMap, File) ==
    IF idref \notin DOMAIN idMap THEN [out |-> <<>>, reads |-> <<>>]
    ELSE With(idMap[idref], LAMBDA contentFilePath :
         With(readZipFile(File, contentFilePath), LAMBDA rd :
             IF rd.err # "none"
             THEN [out |-> <<>>, reads |-> ReadLog(contentFilePath, rd, <<>>)]
             ELSE IF File[rd.opened].html.Type = "ParseError"
             THEN [out |-> <<>>, reads |-> ReadLog(contentFilePath, rd, <<>>)]
             ELSE With(extractRawHTML(File[rd.opened].html,
                           [files |-> File, contentFilePath |-> contentFilePath,
                            hrefMap |-> hrefMap]),
                       LAMBDA events :
                           [out |-> Append(Written(events), Separator),
                            reads |-> ReadLog(contentFilePath, rd, <<>>) \o ReadsOf(events)])))

(* log.Fatalf: the process exits at once; deferred calls do not run *)
Fatal == pc' = "fatal"

(* lines 75-79 *)
OpenArchive ==
    /\ pc = "start"
    /\ \E opens \in BOOLEAN :
           IF opens
           THEN /\ r' = [r EXCEPT !.acquired = @ + 1]
                /\ pc' = "opened"
           ELSE /\ Fatal
                /\ UNCHANGED r
    /\ UNCHANGED <<opfPath, pkg, outFile, idx, combinedHTML, reads, chunks>>
    /\ UNCHANGED <<manifestIDMap, manifestHrefMap>>
    /\ UNCHANGED <<pathVars, zipVars, renderVars>>

(* lines 81-88 *)
FindOpf ==
    /\ pc = "opened"
    /\ LET res == findOpfPath(files) IN
       IF res.err \/ res.path = <<>>
       THEN Fatal /\ UNCHANGED opfPath
       ELSE pc' = "found" /\ opfPath' = res.path
    /\ UNCHANGED <<r, pkg, outFile, idx, combinedHTML, reads, chunks>>
    /\ UNCHANGED <<manifestIDMap, manifestHrefMap>>
    /\ UNCHANGED <<pathVars, zipVars, renderVars>>

(* lines 90-93 *)
ParseOpf ==
    /\ pc = "found"
    /\ LET res == parseOpf(files, opfPath) IN
       IF res.err
       THEN Fatal /\ UNCHANGED pkg
       ELSE pc' = "parsed" /\ pkg' = res.pkg
    /\ UNCHANGED <<r, opfPath, outFile, idx, combinedHTML, reads, chunks>>
    /\ UNCHANGED <<manifestIDMap, manifestHrefMap>>
    /\ UNCHANGED <<pathVars, zipVars, renderVars>>

(* lines 95-99 *)
CreateOutput ==
    /\ pc = "parsed"
    /\ \E created \in BOOLEAN :
           IF created
           THEN /\ outFile' = [outFile EXCEPT !.created = TRUE]
                /\ pc' = "created"
           ELSE /\ Fatal
                /\ UNCHANGED outFile
    /\ UNCHANGED <<r, opfPath, pkg, idx, combinedHTML, reads, chunks>>
    /\ UNCHANGED <<manifestIDMap, manifestHrefMap>>
    /\ UNCHANGED <<pathVars, zipVars, renderVars>>

(* lines 101-109 *)
WriteHeader ==
    /\ pc = "created"
    /\ \E written \in BOOLEAN :
           IF written
           THEN /\ outFile' = [outFile EXCEPT !.text = Append(@,
                       [kind |-> "header",
                        title |-> EscapeString(IF pkg.Title # <<>> THEN pkg.Title
                                               ELSE DefaultTitle)])]
                /\ pc' = "header"
           ELSE /\ Fatal
                /\ UNCHANGED outFile
    /\ UNCHANGED <<r, opfPath, pkg, idx, combinedHTML, reads, chunks>>
    /\ UNCHANGED <<manifestIDMap, manifestHrefMap>>
    /\ UNCHANGED <<pathVars, zipVars, renderVars>>

(* lines 110, 128-142: processEpubContent starts and builds its two maps *)
BuildMaps ==
    /\ pc = "header"
    /\ manifestIDMap' = IDMapOf(pkg.OpfDir, pkg.Items)
    /\ manifestHrefMap' = HrefMapOf(pkg.OpfDir, pkg.Items)
    /\ idx' = 1
    /\ pc' = "loop"
    /\ UNCHANGED <<r, opfPath, pkg, outFile, combinedHTML, reads, chunks>>
    /\ UNCHANGED <<pathVars, zipVars, renderVars>>

(* lines 144-166 *)
ProcessItem ==
    /\ pc = "loop"
    /\ idx <= Len(pkg.Itemrefs)
    /\ \E res \in {processItem(pkg.Itemrefs[idx], manifestIDMap, manifestHrefMap, files)} :
           /\ combinedHTML' = combinedHTML \o res.out
           /\ reads' = reads \o res.reads
           /\ chunks' = Append(chunks, res.out)
    /\ idx' = idx + 1
    /\ UNCHANGED <<pc, r, opfPath, pkg, outFile, manifestIDMap, manifestHrefMap>>
    /\ UNCHANGED <<pathVars, zipVars, renderVars>>

(* lines 167, 110-118: the loop is over; the builder is written *)
WriteContent ==
    /\ pc = "loop"
    /\ idx > Len(pkg.Itemrefs)
    /\ \E written \in BOOLEAN :
           IF written
           THEN /\ outFile' = [outFile EXCEPT !.text = @ \o combinedHTML]
                /\ pc' = "content"
           ELSE /\ Fatal
                /\ UNCHANGED outFile
    /\ UNCHANGED <<r, opfPath, pkg, idx, combinedHTML, reads, chunks>>
    /\ UNCHANGED <<manifestIDMap, manifestHrefMap>>
    /\ UNCHANGED <<pathVars, zipVars, renderVars>>

(* lines 120-123 *)
WriteFooter ==
    /\ pc = "content"
    /\ \E written \in BOOLEAN :
           IF written
           THEN /\ outFile' = [outFile EXCEPT !.text = Append(@, [kind |-> "footer"])]
                /\ pc' = "footer"
           ELSE /\ Fatal
                /\ UNCHANGED outFile
    /\ UNCHANGED <<r, opfPath, pkg, idx, combinedHTML, reads, chunks>>
    /\ UNCHANGED <<manifestIDMap, manifestHrefMap>>
    /\ UNCHANGED <<pathVars, zipVars, renderVars>>

(* lines 125-126: main returns; the deferred outFile.Close and r.Close run *)
Return ==
    /\ pc = "footer"
    /\ outFile' = [outFile EXCEPT !.closed = @ + 1]
    /\ r' = [r EXCEPT !.released = @ + 1]
    /\ pc' = "done"
    /\ UNCHANGED <<opfPath, pkg, idx, combinedHTML, reads, chunks>>
    /\ UNCHANGED <<manifestIDMap, manifestHrefMap>>
    /\ UNCHANGED <<pathVars, zipVars, renderVars>>

Next ==
    \/ OpenArchive
    \/ FindOpf
    \/ ParseOpf
    \/ CreateOutput
    \/ WriteHeader
    \/ BuildMaps
    \/ ProcessItem
    \/ WriteContent
    \/ WriteFooter
    \/ Return


(***************************************************************************)
(* The books main is run on.  The good book has a container file naming    *)
(* OPS/c.opf, seven manifest items and any spine of at most MaxSpine       *)
(* references among: ch1 and ch2 (two chapters), fs (a frameset document,  *)
(* whose tree has no body), lock (its file cannot be opened), bad (its     *)
(* file cannot be parsed), gone (its file is not in the archive) and nope  *)
(* (not in the manifest).  The other books fail before the spine is read,  *)
(* or are found by the fallback.                                           *)
(***************************************************************************)
NoXml == [kind |-> "none"]

Entry(name, ok, data, html, xml) ==
    [Name |-> name, ok |-> ok, data |-> data, html |-> html, xml |-> xml]

PlainDoc ==
    DocumentNode(<<ElementNode("html", <<>>,
                      << ElementNode("head", <<>>, <<>>),
                         ElementNode("body", <<>>, <<TextNode(<<"?">>)>>) >>)>>)

Ch1Doc ==
    HtmlDocument(<< ElementNode("p", <<Attribute("class", <<"c">>)>>, <<TextNode(TextAmpLt)>>),
                    ElementNode("img", <<Attribute("src", SrcCover)>>, <<>>) >>)

Ch2Doc ==
    DocumentNode(<< CommentNode,
                    ElementNode("html", <<>>,
                        << ElementNode("head", <<>>, <<>>),
                           ElementNode("body", <<>>,
                               << TextNode(<<"b">>),
                                  ElementNode("script", <<>>, <<TextNode(<<"s">>)>>),
                                  ElementNode("img", <<Attribute("src", SrcOrphan)>>, <<>>),
                                  ElementNode("h1", <<>>, <<TextNode(<<"e">>)>>) >>) >>) >>)

FramesetDoc ==
    DocumentNode(<<ElementNode("html", <<>>,
                      << ElementNode("head", <<>>,
                             <<ElementNode("title", <<>>, <<TextNode(<<"T">>)>>)>>),
                         ElementNode("frameset", <<>>,
                             <<ElementNode("frame", <<Attribute("src", SrcCover)>>, <<>>)>>) >>)>>)

OpfPath == <<"O", "P", "S", "/", "c", ".", "o", "p", "f">>

BookItems ==
    << [ID |-> "ch1", Href |-> <<"t", "x", "t", "/", "c", "h", "1", ".", "h", "t", "m">>, MediaType |-> <<"h">>],
       [ID |-> "ch2", Href |-> <<"t", "x", "t", "/", "c", "h", "2", ".", "h", "t", "m">>, MediaType |-> <<"h">>],
       [ID |-> "fs", Href |-> <<"t", "x", "t", "/", "f", "s", ".", "h", "t", "m">>, MediaType |-> <<"h">>],
       [ID |-> "lock", Href |-> <<"t", "x", "t", "/", "l", "o", "c", "k", ".", "h", "t", "m">>, MediaType |-> <<"h">>],
       [ID |-> "bad", Href |-> <<"t", "x", "t", "/", "b", "a", "d", ".", "h", "t", "m">>, MediaType |-> <<"h">>],
       [ID |-> "gone", Href |-> <<"t", "x", "t", "/", "g", "o", "n", "e", ".", "h", "t", "m">>, MediaType |-> <<"h">>],
       [ID |-> "cover", Href |-> <<"i", "m", "g", "/", "a", ".", "j", "p", "g">>, MediaType |-> ImageJpeg] >>

SpineIds == {"ch1", "ch2", "fs", "lock", "bad", "gone", "nope"}

PackageXml(title, spine) ==
    [kind |-> "package", Title |-> title, Items |-> BookItems, Itemrefs |-> spine]

ContainerEntry(ok, xml) == Entry(ContainerXml, ok, <<60>>, PlainDoc, xml)

GoodContainer ==
    [kind |-> "container",
     Rootfiles |-> << [FullPath |-> <<"x">>, MediaType |-> "text/plain"],
                      [FullPath |-> OpfPath, MediaType |-> OpfMediaType] >>]

ContentEntries ==
    << Entry(<<"O", "P", "S", "/", "t", "x", "t", "/", "c", "h", "1", ".", "h", "t", "m">>, TRUE, <<60, 112>>, Ch1Doc, NoXml),
       Entry(<<"O", "P", "S", "/", "t", "x", "t", "/", "c", "h", "2", ".", "h", "t", "m">>, TRUE, <<60, 98>>, Ch2Doc, NoXml),
       Entry(<<"O", "P", "S", "/", "t", "x", "t", "/", "f", "s", ".", "h", "t", "m">>, TRUE, <<60, 102>>, FramesetDoc, NoXml),
       Entry(<<"O", "P", "S", "/", "t", "x", "t", "/", "l", "o", "c", "k", ".", "h", "t", "m">>, FALSE, <<60>>, PlainDoc, NoXml),
       Entry(<<"O", "P", "S", "/", "t", "x", "t", "/", "b", "a", "d", ".", "h", "t", "m">>, TRUE, <<60, 60>>, [Type |-> "ParseError"], NoXml),
       Entry(<<"O", "P", "S", "/", "i", "m", "g", "/", "a", ".", "j", "p", "g">>, TRUE, CoverBytes, PlainDoc, NoXml),
       Entry(<<"O", "P", "S", "/", "i", "m", "g", "/", "b", ".", "p", "n", "g">>, TRUE, <<137, 80>>, PlainDoc, NoXml) >>

Book(container, opfName, opfXml) ==
    container \o <<Entry(opfName, TRUE, <<60>>, PlainDoc, opfXml)>> \o ContentEntries

GoodBooks ==
    {Book(<<ContainerEntry(TRUE, GoodContainer)>>, OpfPath, PackageXml(<<"T", "&">>, spine)) :
        spine \in SeqsUpTo(SpineIds, MaxSpine)}

OtherBooks ==
    { (* no container file: the fallback finds OPS/c.opf *)
      Book(<<>>, OpfPath, PackageXml(<<>>, <<"ch2", "ch1">>)),
      (* no container file and no package file *)
      ContentEntries,
      (* the container file cannot be opened *)
      Book(<<ContainerEntry(FALSE, GoodContainer)>>, OpfPath, PackageXml(<<>>, <<"ch1">>)),
      (* the container file is not a container document *)
      Book(<<ContainerEntry(TRUE, NoXml)>>, OpfPath, PackageXml(<<>>, <<"ch1">>)),
      (* the container names a package file that is not in the archive *)
      Book(<<ContainerEntry(TRUE, GoodContainer)>>, <<"O", "P", "S", "/", "d", ".", "o", "p", "f">>, PackageXml(<<>>, <<"ch1">>)),
      (* the package file is not a package document *)
      Book(<<ContainerEntry(TRUE, GoodContainer)>>, OpfPath, NoXml),
      (* the container names the empty path *)
      Book(<<ContainerEntry(TRUE, [kind |-> "container",
                 Rootfiles |-> <<[FullPath |-> <<>>, MediaType |-> OpfMediaType]>>])>>,
           OpfPath, PackageXml(<<>>, <<"ch1">>)),
      (* the container names no package: the fallback finds c.opf at the root *)
      Book(<<ContainerEntry(TRUE, [kind |-> "container", Rootfiles |-> <<>>])>>,
           <<"c", ".", "o", "p", "f">>, PackageXml(<<>>, <<"ch1">>)) }

Init ==
    /\ files \in GoodBooks \cup OtherBooks
    /\ pc = "start"
    /\ r = [acquired |-> 0, released |-> 0]
    /\ opfPath = <<>>
    /\ pkg = NoPackage
    /\ outFile = [created |-> FALSE, closed |-> 0, text |-> <<>>]
    /\ idx = 0
    /\ combinedHTML = <<>>
    /\ reads = <<>>
    /\ chunks = <<>>
    /\ NoMaps
    /\ baseSegs = <<>> /\ relSegs = <<>> /\ sep = "/"
    /\ resolved = [done |-> FALSE, path |-> <<>>]
    /\ filePath = <<>>
    /\ readResult = [done |-> FALSE]
    /\ doc = DocumentNode(<<>>)
    /\ docPath = <<>>
    /\ rendered = [done |-> FALSE]

Spec == Init /\ [][Next]_vars

(***************************************************************************)
(* Vocabulary of the claims about a run.                                   *)
(***************************************************************************)
(* the spine items the loop has been through *)
Processed == SubSeq(pkg.Itemrefs, 1, Len(chunks))

(* the archive entry of a spine item's content file: the first entry named *)
(* by the manifest's path for it; 0 when there is none                     *)
ContentIndex(id) ==
    IF \E i \in 1..Len(files) : files[i].Name = manifestIDMap[id]
    THEN CHOOSE i \in 1..Len(files) :
             /\ files[i].Name = manifestIDMap[id]
             /\ \A j \in 1..(i - 1) : files[j].Name # manifestIDMap[id]
    ELSE 0

(* not in the manifest, or its file cannot be read, or cannot be parsed *)
Fails(id) ==
    \/ id \notin DOMAIN manifestIDMap
    \/ HasDotDotPrefix(manifestIDMap[id])
    \/ ContentIndex(id) = 0
    \/ ~files[ContentIndex(id)].ok
    \/ files[ContentIndex(id)].html.Type = "ParseError"

ContentDoc(id) == files[ContentIndex(id)].html

(* the rewritten fragment of a spine item that does not fail *)
Fragment(id) ==
    Written(extractRawHTML(ContentDoc(id),
                [files |-> files, contentFilePath |-> manifestIDMap[id],
                 hrefMap |-> manifestHrefMap]))

Succeeded(ids) == SelectSeq(ids, LAMBDA id : ~Fails(id))

SepAt(w) == {i \in 1..Len(w) : w[i].kind = "sep"}

(* the position of the k-th separator of w; 0 for k = 0 *)
NthSep(w, k) ==
    IF k = 0 THEN 0
    ELSE CHOOSE i \in SepAt(w) : Cardinality({j \in SepAt(w) : j < i}) = k - 1

(* what stands between the (k-1)-th and the k-th separator of w *)
Block(w, k) == SubSeq(w, NthSep(w, k - 1) + 1, NthSep(w, k) - 1)

(***************************************************************************)
(* C1: the accumulated output is, for the spine items processed so far     *)
(* that did not fail, taken in spine order, the rewritten fragment of the  *)
(* item followed by one separator: as many separators as such items, the   *)
(* k-th fragment right before the k-th separator, nothing after the last.  *)
(***************************************************************************)
C1_SpineOrder ==
    idx >= 1 =>
        /\ Cardinality(SepAt(combinedHTML)) = Len(Succeeded(Processed))
        /\ combinedHTML # <<>> => combinedHTML[Len(combinedHTML)].kind = "sep"
        /\ \A k \in 1..Len(Succeeded(Processed)) :
               Block(combinedHTML, k) = Fragment(Succeeded(Processed)[k])

(* the spine [ch2, ch1] has been processed: ch2's fragment, one separator,
   ch1's fragment, one separator *)
C1_Witness ==
    /\ pc = "done"
    /\ pkg.Itemrefs = <<"ch2", "ch1">>
    /\ Fragment("ch2") # <<>> /\ Fragment("ch1") # <<>>
    /\ Fragment("ch2") # Fragment("ch1")
    /\ combinedHTML = Fragment("ch2") \o <<Separator>> \o Fragment("ch1") \o <<Separator>>
    /\ outFile.text = <<[kind |-> "header", title |-> <<"T", "&", "a", "m", "p", ";">>]>>
                      \o combinedHTML \o <<[kind |-> "footer"]>>

RECURSIVE OutputFrom(_, _)
OutputFrom(ids, i) ==
    IF i > Len(ids) THEN <<>>
    ELSE processItem(ids[i], manifestIDMap, manifestHrefMap, files).out \o OutputFrom(ids, i + 1)

(* what the loop appends for the spine ids *)
OutputOf(ids) == With(ids, LAMBDA s : OutputFrom(s, 1))

(***************************************************************************)
(* C3: a spine item that fails (its idref is not in the manifest, its file *)
(* cannot be read, or its content cannot be parsed) appends nothing; the   *)
(* run does not abort inside the loop; and the output accumulated so far   *)
(* is what the loop appends for the processed items with the failing ones  *)
(* taken out of the spine.                                                 *)
(***************************************************************************)
C3_FailureIsolated ==
    idx >= 1 =>
        /\ \A k \in 1..Len(chunks) : Fails(Processed[k]) => chunks[k] = <<>>
        /\ combinedHTML = OutputOf(Succeeded(Processed))
        /\ pc = "fatal" => idx > Len(pkg.Itemrefs)

(* an idref that is not in the manifest and a document that cannot be
   parsed come before ch1, which is processed all the same *)
C3_Witness ==
    /\ pc = "done"
    /\ pkg.Itemrefs = <<"nope", "bad", "ch1">>
    /\ Fails("nope") /\ Fails("bad") /\ ~Fails("ch1")
    /\ chunks[1] = <<>> /\ chunks[2] = <<>>
    /\ chunks[3] = Append(Fragment("ch1"), Separator)
    /\ Len(chunks[3]) > 1
    /\ combinedHTML = chunks[3]

(***************************************************************************)
(* C9: when the run has ended after the archive was opened, the archive    *)
(* handle was acquired once and has been released exactly once.            *)
(***************************************************************************)
C9_ReleasedOnEveryExit ==
    (pc \in {"done", "fatal"} /\ r.acquired > 0) => (r.acquired = 1 /\ r.released = 1)

(* the positions of the body elements of a tree *)
Bodies(tree) == {pos \in Positions(tree) : IsBody(NodeAt(tree, pos))}

(* document order: a node before its descendants, a child before the next *)
Precedes(p, q) ==
    \/ IsPrefix(p, q)
    \/ \E k \in 1..Len(p) :
           /\ k <= Len(q)
           /\ SubSeq(p, 1, k - 1) = SubSeq(q, 1, k - 1)
           /\ p[k] < q[k]

FirstBody(tree) == CHOOSE b \in Bodies(tree) : \A c \in Bodies(tree) : Precedes(b, c)

(* what of a chunk comes from the document: all but the separator *)
Rewritten(chunk) == SelectSeq(chunk, LAMBDA t : t.kind # "sep")

(* everything written for the item comes from strictly below the body at b,
   and every text child of that body is written *)
OnlyBelow(chunk, tree, b) ==
    /\ \A i \in 1..Len(Rewritten(chunk)) :
           /\ IsPrefix(b, Rewritten(chunk)[i].pos)
           /\ Rewritten(chunk)[i].pos # b
    /\ \A i \in 1..Len(Rewritten(chunk)) :
           Rewritten(chunk)[i].kind \in {"open", "close"} => Rewritten(chunk)[i].tag # "body"
    /\ \A i \in 1..Len(NodeAt(tree, b).Kids) :
           NodeAt(tree, b).Kids[i].Type = "Text" => TokensAt(chunk, Append(b, i)) # <<>>

(***************************************************************************)
(* C10 as stated: a content document without a body element leaves the     *)
(* accumulated output as it was (no fragment, no separator); with a body,  *)
(* only what is below the first body element is rewritten and the body tag *)
(* is not written.                                                         *)
(***************************************************************************)
C10_AsWritten ==
    \A k \in 1..Len(chunks) :
        ~Fails(Processed[k]) =>
            IF Bodies(ContentDoc(Processed[k])) = {}
            THEN chunks[k] = <<>>
            ELSE OnlyBelow(chunks[k], ContentDoc(Processed[k]),
                           FirstBody(ContentDoc(Processed[k])))

(***************************************************************************)
(* C10: a content document without a body element appends the separator   *)
(* and nothing else; with a body, what is appended is the rewriting of     *)
(* what is below the first body element, without the body tag, and then    *)
(* the separator.                                                          *)
(***************************************************************************)
C10_BodyLocation ==
    \A k \in 1..Len(chunks) :
        ~Fails(Processed[k]) =>
            /\ chunks[k] # <<>>
            /\ chunks[k][Len(chunks[k])] = Separator
            /\ Len(Rewritten(chunks[k])) = Len(chunks[k]) - 1
            /\ IF Bodies(ContentDoc(Processed[k])) = {}
               THEN chunks[k] = <<Separator>>
               ELSE OnlyBelow(chunks[k], ContentDoc(Processed[k]),
                              FirstBody(ContentDoc(Processed[k])))

(* the frameset document, which has no body, and then ch2, whose body comes
   after a comment and a head *)
C10_Witness ==
    /\ pc = "done"
    /\ pkg.Itemrefs = <<"fs", "ch2">>
    /\ Bodies(ContentDoc("fs")) = {}
    /\ chunks[1] = <<Separator>>
    /\ FirstBody(ContentDoc("ch2")) = <<2, 2>>
    /\ Len(chunks[2]) > 1
    /\ \E i \in 1..Len(chunks[2]) : chunks[2][i].kind = "text" /\ chunks[2][i].pos = <<2, 2, 1>>

=============================================================================
